---- MODULE Spec2Model ----
\* The 2048 game engine of src/app/2048/page.tsx (useGameEngine): the board,
\* move resolution, spawning, win/loss detection, score and best.
EXTENDS Integers, Sequences, FiniteSets, TLC

VARIABLES tiles, score, best, won, over, idSeq, last, nOps, nGames, best0, maxScore,
          store, storage, queue, effects, crashed, plast

\* the engine: the React state, the module-level id counter and the history
\* of the last operation
gvars == <<tiles, score, best, won, over, idSeq, last, nOps, nGames, best0, maxScore>>

\* the engine's surroundings: localStorage, the updates React has queued, the
\* effects it has still to run, and the history of the last step
pvars == <<store, storage, queue, effects, crashed, plast>>

vars == <<gvars, pvars>>

----------------------------------------------------------------------------
\* Program constants and model bounds

SIZE == 4
WinValue == 2048

\* a value r of Math.random() is held as the integer r * RandScale
RandScale == 32
\* the draws an operation takes are the RandDen multiples of 1/RandDen
RandDen == 2
\* operations (move or newGame) issued in one behaviour
MaxOps == 2
\* newGame calls among them
MaxGames == 1
\* move and newGame calls issued in one behaviour of the queued engine
MaxCalls == 4
\* renders of queued calls in one behaviour of the queued engine
MaxBatches == 1

Directions == {"up", "down", "left", "right"}
Idx == 0 .. (SIZE - 1)
Cells == Idx \X Idx
AnyRand == 0 .. (RandScale - 1)
Rand == {k * (RandScale \div RandDen) : k \in 0 .. (RandDen - 1)}

Max(a, b) == IF a >= b THEN a ELSE b

\* a function on 1..n as a sequence value
AsSeq(f) == SubSeq(f, 1, Len(f))

----------------------------------------------------------------------------
\* Grid model

\* all cells in row-major order (the nested r, c loops)
AllCells == [k \in 1 .. (SIZE * SIZE) |-> <<(k - 1) \div SIZE, (k - 1) % SIZE>>]

Pos(t) == <<t.row, t.col>>

\* emptyCells without the test of occupancy
emptyCellsAll(ts) == AllCells

emptyCells(ts) ==
    LET occupied == {Pos(ts[i]) : i \in 1 .. Len(ts)}
        Free(cell) == cell \notin occupied
    IN SelectSeq(AllCells, Free)

\* grid[r][c] holds a reference to a tile of the array: its index, 0 = undefined.
\* forEach assigns in array order, so the last tile of a cell wins.
BuildGrid(ts) ==
    [cell \in Cells |->
        LET here == {i \in 1 .. Len(ts) : Pos(ts[i]) = cell}
        IN IF here = {} THEN 0 ELSE CHOOSE i \in here : \A j \in here : j <= i]

\* Math.floor(Math.random() * empties.length)
SpawnIndex(n, r1) == (r1 * n) \div RandScale

\* Math.random() < 0.1 ? 4 : 2
SpawnValue(r2) == IF r2 * 10 < RandScale THEN 4 ELSE 2

\* randomSpawn drawing its cell among all cells instead of the empty ones
randomSpawnAnyCell(ts, seq, r1, r2) ==
    IF Len(emptyCells(ts)) = 0 THEN [tiles |-> ts, idSeq |-> seq]
    ELSE LET cell == AllCells[SpawnIndex(Len(AllCells), r1) + 1]
             value == SpawnValue(r2)
         IN [tiles |-> Append(ts, [id |-> seq, row |-> cell[1], col |-> cell[2],
                                   value |-> value, spawned |-> TRUE, merged |-> FALSE]),
             idSeq |-> seq + 1]

\* randomSpawn with `idSeq` in place of `idSeq++`
randomSpawnKeepId(ts, seq, r1, r2) ==
    LET empties == emptyCells(ts)
    IN IF Len(empties) = 0 THEN [tiles |-> ts, idSeq |-> seq]
       ELSE LET cell == empties[SpawnIndex(Len(empties), r1) + 1]
                value == SpawnValue(r2)
            IN [tiles |-> Append(ts, [id |-> seq, row |-> cell[1], col |-> cell[2],
                                      value |-> value, spawned |-> TRUE, merged |-> FALSE]),
                idSeq |-> seq]

\* randomSpawn with its two Math.random() draws r1 and r2 and the global
\* idSeq; yields the new array and the new idSeq.
randomSpawn(ts, seq, r1, r2) ==
    LET empties == emptyCells(ts)
    IN IF Len(empties) = 0 THEN [tiles |-> ts, idSeq |-> seq]
       ELSE LET cell == empties[SpawnIndex(Len(empties), r1) + 1]
                value == SpawnValue(r2)
            IN [tiles |-> Append(ts, [id |-> seq, row |-> cell[1], col |-> cell[2],
                                      value |-> value, spawned |-> TRUE, merged |-> FALSE]),
                idSeq |-> seq + 1]

\* canAnyMove looking at the right-hand neighbour only
canAnyMoveInRows(ts) ==
    \/ Len(emptyCells(ts)) > 0
    \/ LET grid == BuildGrid(ts)
       IN \E r \in Idx, c \in Idx :
            /\ grid[<<r, c>>] # 0
            /\ c + 1 < SIZE
            /\ grid[<<r, c + 1>>] # 0
            /\ ts[grid[<<r, c + 1>>]].value = ts[grid[<<r, c>>]].value

canAnyMove(ts) ==
    \/ Len(emptyCells(ts)) > 0
    \/ LET grid == BuildGrid(ts)
       IN \E r \in Idx, c \in Idx :
            /\ grid[<<r, c>>] # 0
            /\ \/ /\ r + 1 < SIZE
                  /\ grid[<<r + 1, c>>] # 0
                  /\ ts[grid[<<r + 1, c>>]].value = ts[grid[<<r, c>>]].value
               \/ /\ c + 1 < SIZE
                  /\ grid[<<r, c + 1>>] # 0
                  /\ ts[grid[<<r, c + 1>>]].value = ts[grid[<<r, c>>]].value

----------------------------------------------------------------------------
\* Move resolver

Reverse(s) == [i \in 1 .. Len(s) |-> s[Len(s) + 1 - i]]

\* Lines with the `line.reverse()` of "right" and "down" left out
LinesNoReverse(dir) ==
    IF dir \in {"left", "right"}
    THEN [k \in 1 .. SIZE |-> [i \in 1 .. SIZE |-> <<k - 1, i - 1>>]]
    ELSE [k \in 1 .. SIZE |-> [i \in 1 .. SIZE |-> <<i - 1, k - 1>>]]

\* the SIZE lines of a direction, each with its leading end first
Lines(dir) ==
    IF dir \in {"left", "right"}
    THEN [k \in 1 .. SIZE |->
            LET line == [i \in 1 .. SIZE |-> <<k - 1, i - 1>>]
            IN IF dir = "left" THEN line ELSE Reverse(line)]
    ELSE [k \in 1 .. SIZE |->
            LET line == [i \in 1 .. SIZE |-> <<i - 1, k - 1>>]
            IN IF dir = "up" THEN line ELSE Reverse(line)]

\* while (grid[targetPos.r][targetPos.c]) targetIndex++
RECURSIVE AdvanceTarget(_, _, _)
AdvanceTarget(grid, coords, targetIndex) ==
    IF grid[coords[targetIndex + 1]] # 0
    THEN AdvanceTarget(grid, coords, targetIndex + 1)
    ELSE targetIndex

\* CanMerge with the `!prevTile.merged` test left out
CanMergeAgain(prevTile, current) ==
    prevTile.value = current.value

\* if (prevTile && prevTile.value === current.value && !prevTile.merged)
CanMerge(prevTile, current) ==
    prevTile.value = current.value /\ ~prevTile.merged

\* one iteration of the inner loop: st is the resolver's mutable state
\* (tiles, grid, moved, scoreGain, toRemove, targetIndex), ci the array index
\* of the current tile
ProcessTile(st, coords, ci) ==
    LET current == st.tiles[ci]
        targetPos == coords[st.targetIndex + 1]
        prevPos == coords[st.targetIndex]
        prevIdx == st.grid[prevPos]
    IN IF /\ st.targetIndex > 0
          /\ prevIdx # 0
          /\ CanMerge(st.tiles[prevIdx], current)
       THEN [st EXCEPT !.grid[Pos(current)] = 0,
                       !.moved = st.moved \/ current.row # prevPos[1]
                                          \/ current.col # prevPos[2],
                       !.tiles[prevIdx].value = @ * 2,
                       !.tiles[prevIdx].merged = TRUE,
                       !.scoreGain = @ + st.tiles[prevIdx].value * 2,
                       !.toRemove = @ \cup {current.id}]
       ELSE LET cleared == [st.grid EXCEPT ![Pos(current)] = 0]
                ti == AdvanceTarget(cleared, coords, st.targetIndex)
                tp == coords[ti + 1]
            IN [st EXCEPT !.moved = st.moved \/ Pos(current) # targetPos,
                          !.grid = [cleared EXCEPT ![tp] = ci],
                          !.tiles[ci].row = tp[1],
                          !.tiles[ci].col = tp[2],
                          !.targetIndex = ti + 1]

RECURSIVE ProcessTiles(_, _, _, _)
ProcessTiles(st, coords, lineTiles, i) ==
    IF i > Len(lineTiles) THEN st
    ELSE ProcessTiles(ProcessTile(st, coords, lineTiles[i]), coords, lineTiles, i + 1)

\* the body of `for (const coords of lines)`
ProcessLine(st, coords) ==
    LET Occupied(cell) == st.grid[cell] # 0
        lineCells == SelectSeq(coords, Occupied)
        lineTiles == [i \in 1 .. Len(lineCells) |-> st.grid[lineCells[i]]]
    IN IF Len(lineTiles) = 0 THEN st
       ELSE ProcessTiles([st EXCEPT !.targetIndex = 0], coords, lineTiles, 1)

RECURSIVE ProcessLines(_, _, _)
ProcessLines(st, lines, k) ==
    IF k > Len(lines) THEN st
    ELSE ProcessLines(ProcessLine(st, lines[k]), lines, k + 1)

\* prev.tiles.map((t) => ({ ...t, merged: false, spawned: false }))
ResetFlags(ts) ==
    AsSeq([i \in 1 .. Len(ts) |-> [ts[i] EXCEPT !.merged = FALSE, !.spawned = FALSE]])

\* the resolver part of move: the mutated tiles, moved, scoreGain, toRemove
Resolve(prevTiles, dir) ==
    LET ts == ResetFlags(prevTiles)
    IN ProcessLines([tiles |-> ts, grid |-> BuildGrid(ts), moved |-> FALSE,
                     scoreGain |-> 0, toRemove |-> {}, targetIndex |-> 0],
                    Lines(dir), 1)

\* tiles.filter((t) => !toRemove.has(t.id))
Filtered(res) ==
    LET Keep(t) == t.id \notin res.toRemove
    IN SelectSeq(res.tiles, Keep)

\* WonAfter with > in place of >=
WonAbove(prevWon, filtered) ==
    prevWon \/ \E i \in 1 .. Len(filtered) : filtered[i].value > WinValue

\* prev.won || filtered.some((t) => t.value >= 2048)
WonAfter(prevWon, filtered) ==
    prevWon \/ \E i \in 1 .. Len(filtered) : filtered[i].value >= WinValue

\* OverAfter without the `!won` test
OverIgnoringWon(w, nextTiles) == ~canAnyMove(nextTiles)

\* OverAfter taking a full board for a lost one
OverWhenFull(w, nextTiles) == ~w /\ Len(emptyCells(nextTiles)) = 0

\* !won && !canAnyMove(nextTiles)
OverAfter(w, nextTiles) == ~w /\ ~canAnyMove(nextTiles)

\* prev.score + scoreGain
ScoreAfter(prevScore, scoreGain) == prevScore + scoreGain

\* BestAfter without the Math.max
BestIsScore(prevBest, newScore) == newScore

\* Math.max(prev.best, score)
BestAfter(prevBest, newScore) == Max(prevBest, newScore)

\* SpawnAfter without the `if (moved)` guard
SpawnAlways(moved, filtered, seq, r1, r2) == randomSpawn(filtered, seq, r1, r2)

\* SpawnAfter taking an id from idSeq before the guard
SpawnIdAlways(moved, filtered, seq, r1, r2) ==
    IF moved THEN randomSpawn(filtered, seq, r1, r2)
    ELSE [tiles |-> filtered, idSeq |-> seq + 1]

\* if (moved) nextTiles = randomSpawn(filtered)
SpawnAfter(moved, filtered, seq, r1, r2) ==
    IF moved THEN randomSpawn(filtered, seq, r1, r2)
    ELSE [tiles |-> filtered, idSeq |-> seq]

----------------------------------------------------------------------------
\* State

GameState == [tiles |-> tiles, score |-> score, best |-> best, won |-> won,
              over |-> over, idSeq |-> idSeq]

NoOp == [op |-> "none", dir |-> "none", moved |-> FALSE]

\* const [state, setState] = useState({ tiles: [], score: 0, best: 0, ... })
\* with the module-level `let idSeq = 1`
MountState == [tiles |-> << >>, score |-> 0, best |-> 0, won |-> FALSE,
               over |-> FALSE, idSeq |-> 1]

----------------------------------------------------------------------------
\* localStorage and the effects of useGameEngine

\* a string is held as the sequence of its characters
Digit(d) == <<"0", "1", "2", "3", "4", "5", "6", "7", "8", "9">>[d + 1]
IsDigit(c) == \E d \in 0 .. 9 : Digit(d) = c
DigitValue(c) == CHOOSE d \in 0 .. 9 : Digit(d) = c

\* String(state.best)
RECURSIVE ToStr(_)
ToStr(n) ==
    IF n < 0 THEN <<"-">> \o ToStr(0 - n)
    ELSE IF n < 10 THEN <<Digit(n)>>
    ELSE ToStr(n \div 10) \o <<Digit(n % 10)>>

RECURSIVE DigitsValue(_)
DigitsValue(t) ==
    IF t = << >> THEN 0
    ELSE (DigitsValue(SubSeq(t, 1, Len(t) - 1)) * 10) + DigitValue(t[Len(t)])

AllDigits(t) == t # << >> /\ \A i \in 1 .. Len(t) : IsDigit(t[i])

NaN == [nan |-> TRUE, val |-> 0]
Num(v) == [nan |-> FALSE, val |-> v]

\* Number(saved) on a decimal integer text: "" is 0, other texts are NaN
Number(t) ==
    IF t = << >> THEN Num(0)
    ELSE IF t[1] = "-"
         THEN IF AllDigits(Tail(t)) THEN Num(0 - DigitsValue(Tail(t))) ELSE NaN
    ELSE IF AllDigits(t) THEN Num(DigitsValue(t))
    ELSE NaN

\* x || 0
OrZero(x) == IF x.nan \/ x.val = 0 THEN 0 ELSE x.val

\* localStorage.getItem("game-2048-best"): null, or the text stored
NoItem == [has |-> FALSE, text |-> << >>]
Item(t) == [has |-> TRUE, text |-> t]

\* if (saved): neither null nor ""
Truthy(item) == item.has /\ item.text # << >>

\* the queued state updaters
BestUpdate(v) == [kind |-> "best", value |-> v]
TilesUpdate(ts) == [kind |-> "newGame", tiles |-> ts]
MoveUpdate(dir) == [kind |-> "move", dir |-> dir]

\* the pending effects, each with what its render's closure holds
LoadEffect == [kind |-> "load"]
WriteEffect(b) == [kind |-> "write", best |-> b]
InitEffect(n) == [kind |-> "init", length |-> n]

\* the effects of the first render, in the order useGameEngine declares them
MountEffects(s) == <<LoadEffect, WriteEffect(s.best), InitEffect(Len(s.tiles))>>

\* the write effect, with deps [] in place of [state.best]
EffectsAfterMountOnly(prevBest, nextBest) == << >>

\* the effects of a later render: the write effect runs again when
\* state.best has changed
EffectsAfter(prevBest, nextBest) ==
    IF nextBest # prevBest THEN <<WriteEffect(nextBest)>> ELSE << >>

\* the load effect; env is the queue, the store and whether the tree crashed
\* try { const saved = getItem(key); if (saved) setState(...) } catch {}
loadBest(env, throws) ==
    IF throws THEN env
    ELSE IF Truthy(env.store)
         THEN [env EXCEPT !.queue = Append(@, BestUpdate(OrZero(Number(env.store.text))))]
    ELSE env

\* the write effect without its try/catch
writeBestUncaught(env, b, throws) ==
    IF throws THEN [env EXCEPT !.crashed = TRUE]
    ELSE [env EXCEPT !.store = Item(ToStr(b))]

\* try { setItem(key, String(state.best)) } catch {}
writeBest(env, b, throws) ==
    IF throws THEN env
    ELSE [env EXCEPT !.store = Item(ToStr(b))]

\* the texts a session of the game can have left in the store
StoreInit == {NoItem, Item(<<"0">>), Item(<<"4">>), Item(<<"1", "2", "0">>)}

\* every access of the store works, or any of them may throw
StorageModes == {"ok", "failing"}
Throws == IF storage = "ok" THEN {FALSE} ELSE {FALSE, TRUE}

NoStep(item) == [step |-> "none", failed |-> FALSE, prev |-> MountState,
                 store0 |-> item, readFailed |-> FALSE, writeFailed |-> FALSE,
                 mounted |-> FALSE, base |-> MountState, queue |-> << >>,
                 renders |-> 0]

\* a committed state whose effects have all run
Settled(s) ==
    /\ store = Item(ToStr(s.best))
    /\ storage = "ok"
    /\ queue = << >>
    /\ effects = << >>
    /\ crashed = FALSE
    /\ plast = [NoStep(store) EXCEPT !.mounted = TRUE, !.prev = s, !.base = s]

Quiescent == queue = << >> /\ effects = << >> /\ ~crashed

----------------------------------------------------------------------------
\* Specification

Summary(l) == [op |-> l.op, dir |-> l.dir, moved |-> l.moved]

\* NewGameState without `over: false`
NewGameStateKeepOver(s, ts) ==
    [s EXCEPT !.tiles = ts, !.score = 0, !.won = FALSE]

\* setState((s) => ({ ...s, tiles, score: 0, won: false, over: false }))
NewGameState(s, ts) ==
    [s EXCEPT !.tiles = ts, !.score = 0, !.won = FALSE, !.over = FALSE]

\* newGame(): idSeq = 1, two spawns on the empty board, then the state update
newGameUpdate(s, r1, r2, r3, r4) ==
    LET first == randomSpawn(<< >>, 1, r1, r2)
        second == randomSpawn(first.tiles, first.idSeq, r3, r4)
    IN [NewGameState(s, second.tiles) EXCEPT !.idSeq = second.idSeq]

\* finishMove taking a move that changed nothing for the end of the game
finishMoveOverIfStuck(prev, res, filtered, r1, r2) ==
    LET sp == SpawnAfter(res.moved, filtered, prev.idSeq, r1, r2)
        w == WonAfter(prev.won, filtered)
        sc == ScoreAfter(prev.score, res.scoreGain)
    IN [tiles |-> sp.tiles, score |-> sc, best |-> BestAfter(prev.best, sc),
        won |-> w, over |-> ~w /\ (~res.moved \/ ~canAnyMove(sp.tiles)),
        idSeq |-> sp.idSeq]

\* the updater of move after the resolver loop: won, spawn, over, score, best
finishMove(prev, res, filtered, r1, r2) ==
    LET sp == SpawnAfter(res.moved, filtered, prev.idSeq, r1, r2)
        w == WonAfter(prev.won, filtered)
        sc == ScoreAfter(prev.score, res.scoreGain)
    IN [tiles |-> sp.tiles, score |-> sc, best |-> BestAfter(prev.best, sc),
        won |-> w, over |-> OverAfter(w, sp.tiles), idSeq |-> sp.idSeq]

----------------------------------------------------------------------------
\* Games in progress, used as further starting points. Each is the state the
\* engine reaches from the mount state by a recorded play: a newGame with its
\* two spawns, then effective moves, each with the outcome of its spawn.

DirSeq == <<"up", "down", "left", "right">>

\* a move of a play is held as ((d * 16) + i) * 2 + f: direction DirSeq[d + 1],
\* spawn in the i-th empty cell (from 0), of value 4 if f = 1 and 2 if f = 0
PlayDir(code) == DirSeq[(code \div (2 * SIZE * SIZE)) + 1]
PlayCell(code) == (code \div 2) % (SIZE * SIZE)
PlayFour(code) == code % 2

\* a value of Math.random() that selects the i-th of n empty cells (the first
\* one where the board has no i-th empty cell)
DrawCell(i, n) == IF i >= n THEN 0 ELSE ((i * RandScale) + n - 1) \div n

\* a value of Math.random() that selects the value 4 (f = 1) or 2 (f = 0)
DrawValue(f) == IF f = 1 THEN 0 ELSE RandScale - 1

PlayNewGame(s, new) ==
    newGameUpdate(s, DrawCell(new[1], SIZE * SIZE), DrawValue(new[2]),
                     DrawCell(new[3], SIZE * SIZE - 1), DrawValue(new[4]))

PlayMove(s, code) ==
    CHOOSE next \in
        {finishMove(s, res[1], res[2],
                    DrawCell(PlayCell(code), Len(emptyCells(res[2]))),
                    DrawValue(PlayFour(code)))
            : res \in {<<r, Filtered(r)>> : r \in {Resolve(s.tiles, PlayDir(code))}}} : TRUE

\* the moves lo..hi of a play, applied to state s
RECURSIVE PlayMoves(_, _, _, _)
PlayMoves(s, moves, lo, hi) ==
    IF lo > hi THEN s
    ELSE IF lo = hi THEN PlayMove(s, moves[lo])
    ELSE CHOOSE next \in
            {PlayMoves(half, moves, ((lo + hi) \div 2) + 1, hi)
                : half \in {PlayMoves(s, moves, lo, (lo + hi) \div 2)}} : TRUE

\* the first n moves of a play, started by newGame in state s
Played(s, game, n) ==
    CHOOSE next \in
        {PlayMoves(started, game.moves, 1, n) : started \in {PlayNewGame(s, game.new)}} : TRUE

\* a short game that comes within one move of a loss
GameNearLoss ==
    [new |-> <<0, 0, 0, 0>>,
     moves |->
    <<33, 1, 98, 1, 71, 100, 70, 1, 100, 1, 34, 97, 67, 35>>]

\* a game that fills the board around a pair of 1024 tiles
GameNearWin ==
    [new |-> <<0, 1, 0, 1>>,
     moves |->
    <<67, 65, 65, 65, 67, 65, 65, 65, 67, 65, 65, 65, 73, 7, 9, 65, 65, 65, 1, 65, 65, 65, 109, 7,
      65, 65, 65, 101, 3, 65, 99, 1, 99, 3, 65, 65, 65, 1, 109, 7, 65, 65, 65, 101, 3, 65, 99, 1,
      99, 3, 65, 65, 3, 3, 65, 105, 9, 1, 1, 65, 99, 1, 97, 97, 97, 97, 97, 97, 97, 97, 109, 11,
      1, 1, 101, 1, 65, 65, 5, 65, 105, 5, 67, 1, 101, 3, 65, 99, 99, 97, 97, 97, 97, 1, 97, 97,
      97, 97, 97, 97, 97, 109, 11, 1, 1, 101, 1, 65, 65, 97, 1, 97, 97, 97, 1, 97, 97, 97, 97, 65,
      1, 99, 109, 1, 97, 97, 97, 99, 1, 71, 13, 97, 97, 97, 97, 97, 65, 1, 97, 97, 97, 71, 1, 65,
      1, 99, 109, 3, 65, 67, 5, 5, 101, 3, 101, 115, 3, 99, 99, 99, 97, 97, 97, 97, 99, 3, 65, 97,
      1, 65, 99, 5, 113, 3, 99, 99, 97, 97, 99, 101, 101, 3, 99, 99, 97, 97, 97, 97, 97, 97, 97, 97,
      109, 11, 1, 3, 3, 1, 1, 97, 97, 113, 3, 65, 99, 97, 97, 97, 97, 97, 97, 97, 97, 99, 1, 15,
      97, 97, 99, 1, 97, 97, 97, 71, 13, 97, 97, 97, 65, 7, 1, 1, 71, 1, 97, 1, 97, 71, 1, 71,
      13, 97, 97, 97, 97, 97, 97, 97, 65, 1, 97, 97, 97, 71, 1, 71, 13, 97, 97, 97, 65, 7, 1, 1,
      71, 1, 97, 71, 11, 65, 1, 65, 71, 1, 97, 1, 97, 71, 1, 71, 13, 97, 65, 1, 65, 1, 65, 65,
      71, 3, 97, 97, 99, 1, 97, 71, 13, 97, 97, 97, 65, 7, 1, 1, 71, 1, 97, 97, 97, 71, 1, 71,
      13, 97, 65, 1, 65, 1, 65, 65, 71, 1, 97, 97, 97, 71, 1, 71, 13, 97, 65, 1, 65, 1, 65, 65,
      71, 1, 97, 71, 11, 65, 1, 65, 65, 1, 65, 65, 65, 67, 65, 65, 65, 65, 1, 103, 1, 65, 69, 1,
      99, 1, 97, 97, 97, 97, 97, 97, 109, 11, 1, 3, 3, 1, 15, 97, 97, 99, 1, 97, 97, 97, 71, 13,
      97, 97, 97, 65, 7, 1, 1, 71, 1, 97, 1, 97, 71, 1, 71, 13, 97, 97, 97, 97, 97, 97, 97, 65,
      1, 97, 97, 97, 71, 1, 71, 13, 97, 97, 97, 65, 7, 1, 1, 71, 1, 97, 71, 11, 65, 1, 65, 71,
      1, 97, 1, 65, 65, 65, 97, 71, 1, 71, 13, 97, 65, 1, 65, 1, 65, 65, 71, 3, 97, 97, 99, 1,
      97, 97, 1, 97, 97, 97, 97, 65, 1, 99, 109, 1, 97, 97, 97, 99, 1, 71, 13, 97, 65, 7, 1, 1,
      71, 3, 97, 101, 1, 97, 97, 71, 13, 97, 97, 97, 65, 7, 1, 1, 71, 1, 97, 97, 97, 71, 1, 71,
      13, 97, 65, 1, 65, 1, 65, 65, 71, 3, 97, 101, 1, 97, 97, 71, 13, 97, 97, 97, 65, 7, 1, 1,
      71, 1, 97, 97, 97, 71, 1, 71, 13, 97, 65, 1, 65, 1, 65, 65, 71, 1, 97, 97, 97, 71, 1, 71,
      13, 97, 65, 1, 65, 1, 65, 65, 71, 1, 97, 71, 11, 65, 1, 65, 65, 1, 65, 65, 65, 67, 65, 65,
      65, 65, 1, 97, 97, 1, 65, 46, 104, 74, 67, 68, 69, 96, 97>>]

\* the moves that follow in that game: it reaches 2048 and is played on
GameWonMoves ==
    <<32, 65, 5, 103, 1, 67, 69, 3, 3, 3, 1, 7, 1, 103, 5, 97, 1, 97, 1, 1, 97, 69, 5, 5,
      11, 99, 1, 7, 1, 67, 3, 9, 69, 5, 1, 69, 5, 5, 9, 69, 5, 9, 97, 69, 5, 5, 9, 65,
      3, 9, 97, 1, 5, 101, 99, 5, 7, 97, 97, 69, 7, 69, 5, 5, 5, 5, 9, 69, 5, 5, 9, 69,
      9, 73, 71, 65, 67, 3, 7, 97, 67, 3, 3, 7, 69, 3, 9, 99, 1, 5, 69, 5, 99, 97, 3, 33,
      97, 33, 97, 3, 101, 1, 3, 9, 101, 3, 101, 99, 7, 5, 97, 3, 1, 65, 1, 97, 1, 97, 65, 9,
      1, 1, 65, 1, 97, 1, 99, 1, 71, 1, 71, 13, 97, 97, 97, 97, 97, 97, 97, 1, 69, 13, 97, 1,
      71, 1, 71, 13, 97, 97, 97, 1, 71, 1, 71, 13, 97, 65, 1, 65, 1, 65, 65, 71, 1, 97, 1, 65,
      97, 71, 1, 71, 13, 97, 65, 1, 65, 1, 65, 65, 71, 3, 97, 97, 99, 1, 97, 71, 13, 97, 97, 97,
      1, 71, 1, 71, 13, 97, 97, 97, 1, 71, 1, 71, 13, 97, 65, 1, 65, 1, 65, 65, 71, 1, 97, 97,
      97, 71, 1, 71, 13, 97, 65, 1, 65, 1, 65, 65, 71, 1, 97, 71, 11, 65, 1, 65, 65, 1, 65, 65,
      65, 67, 65, 65, 65, 65, 1, 97, 97, 99, 1, 71, 13, 97, 97, 97, 1, 71, 1, 71, 13, 97, 97, 97,
      1, 71, 1, 71, 13, 97, 65, 1, 65, 1, 65, 65, 71, 1, 97, 97, 97, 71, 1, 71, 13, 97, 65, 1,
      65, 1, 65, 65, 71, 1, 97, 71, 11, 65, 1, 65, 65, 1, 65, 65, 65, 67, 65, 65, 65, 65, 1, 97,
      97, 1, 69, 1, 71, 1, 97, 71, 11, 65, 1, 65, 71, 1, 97, 71, 11, 65, 1, 65, 65, 1, 65, 65,
      65, 67, 65, 65, 65, 65, 1, 97, 69, 9, 69, 1, 65, 1, 65, 65, 65, 67, 65, 73, 73, 65, 1, 65,
      65, 67, 65, 65, 65, 67, 65, 65, 65, 73, 7, 7, 71, 65, 69, 1, 97, 101, 1, 71, 13, 97, 97, 97,
      1, 71, 1, 71, 13, 97, 97, 97, 1, 71, 1, 71, 13, 97, 65, 1, 65, 1, 65, 65, 71, 1, 97, 97,
      97, 71, 1, 71, 13, 97, 65, 1, 65, 1, 65, 65, 71, 1, 97, 71, 11, 65, 1, 65, 65, 1, 65, 65,
      65, 67, 65, 65, 65, 65, 1, 97, 97, 1, 69, 1, 71, 1, 97, 71, 11, 65, 1, 65, 71, 1, 97, 71,
      11, 65, 1, 65, 65, 1, 65, 65, 65, 67, 65, 65, 65, 65, 1, 97, 69, 9, 69, 1, 65, 1, 65, 65,
      65, 67, 65, 73, 73, 65, 1, 65, 65, 67, 65, 65, 65, 67, 65, 65, 65, 73, 7, 7, 65, 65, 65, 9,
      97, 97, 99, 3, 1, 69, 13, 97, 1, 71, 1, 71, 13, 97, 97, 97, 1, 71, 1, 71, 13, 97, 65, 1,
      65, 1, 65, 65, 71, 1, 97, 97, 97, 71, 1, 71, 13, 97, 65, 1, 65, 1, 65, 65, 71, 1, 97, 71,
      11, 65, 1, 65, 65, 1, 65, 65, 65, 67, 65, 65, 65, 65, 1, 97, 97, 1, 69, 1, 71, 1, 97, 71,
      11, 65, 1, 65, 71, 1, 97, 71, 11, 65, 1, 65, 65, 1, 65, 65, 65, 67, 65, 65, 65, 65, 1, 97,
      69, 9, 69, 1, 65, 1, 65, 65, 65, 67, 65, 73, 73, 65, 1, 65, 65, 67, 65, 65, 65, 67, 65, 65,
      65, 73, 7, 7, 71, 65, 65, 1, 97, 97, 97, 1, 1, 97, 69, 1, 1, 67, 65, 65, 71, 1, 97, 71,
      11, 65, 1, 65, 65, 1, 65, 65, 65, 67, 65, 65, 65, 65, 1, 97, 69, 9, 69, 1, 65, 1, 65, 65,
      65, 67, 65, 73, 73, 65, 1, 65, 65, 67, 65, 65, 65, 67, 65, 65, 65, 73, 7, 7, 65, 65, 69, 9,
      97, 65, 7, 3, 65, 1, 65, 65, 65, 67, 65, 73, 73, 65, 1, 65, 65, 67, 65, 65, 65, 67, 65, 65,
      65, 73, 7, 7, 71, 65, 69, 1, 65, 67, 65, 65, 65, 67, 65, 65, 65, 73, 7, 7, 65, 65, 73, 73,
      7, 1, 101, 7, 65, 65, 71, 71, 5, 99, 5, 101, 5, 71, 71, 65, 1, 1, 69, 1, 65, 1, 65, 65,
      65, 67, 65, 73, 73, 65, 1, 65, 65, 67, 65, 65, 65, 67, 65, 65, 65, 73, 7, 7, 71, 65, 69, 1,
      65, 67, 65, 65, 65, 67, 65, 65, 65, 73, 7, 7, 65, 65, 73, 73, 7, 1, 101, 7, 65, 65, 71, 71,
      5, 99, 5, 101, 5, 103, 71, 67, 1, 97, 97>>

\* the next game: lines of equal tiles in every column
GameLines ==
    [new |-> <<4, 1, 4, 1>>,
     moves |->
    <<89, 79, 56, 52, 53, 45, 45, 56, 54, 55, 47, 47, 48, 40, 33, 22, 33, 42, 33, 2, 64, 99, 96, 96,
      97, 69, 67, 69, 65>>]

\* one empty cell and no equal neighbours
SeedNearLoss == Played(MountState, GameNearLoss, Len(GameNearLoss.moves))

\* a full board whose only equal neighbours are two 1024 tiles
SeedNearWin == Played(MountState, GameNearWin, Len(GameNearWin.moves))

\* a won game with a 2048 tile and two 1024 tiles next to it
SeedWon == PlayMoves(SeedNearWin, GameWonMoves, 1, Len(GameWonMoves))

\* a second game under the high score of the first, its columns holding
\* [v,v,v,v], [v,v,w,w], [v,v,v,_] and [v,v,w,_]
SeedLines == Played(SeedWon, GameLines, Len(GameLines.moves))

StartStates == {MountState, SeedLines, SeedNearLoss, SeedNearWin, SeedWon}

Init ==
    \E s \in StartStates :
        /\ tiles = s.tiles
        /\ score = s.score
        /\ best = s.best
        /\ won = s.won
        /\ over = s.over
        /\ idSeq = s.idSeq
        /\ last = [op |-> "none", dir |-> "none", moved |-> FALSE, scoreGain |-> 0,
                   prev |-> s, resolved |-> s.tiles, before |-> NoOp]
        /\ nOps = 0
        /\ nGames = 0
        /\ best0 = s.best
        /\ maxScore = s.score
        /\ Settled(s)

\* newGame(), from the button or the mount effect
NewGame ==
    /\ nOps < MaxOps
    /\ nGames < MaxGames
    /\ \E r1 \in Rand, r2 \in Rand, r3 \in Rand, r4 \in Rand :
       \E next \in {newGameUpdate(GameState, r1, r2, r3, r4)} :
          /\ tiles' = next.tiles
          /\ score' = next.score
          /\ best' = next.best
          /\ won' = next.won
          /\ over' = next.over
          /\ idSeq' = next.idSeq
          /\ maxScore' = Max(maxScore, next.score)
          /\ last' = [op |-> "newGame", dir |-> "none", moved |-> FALSE,
                      scoreGain |-> 0, prev |-> GameState,
                      resolved |-> next.tiles, before |-> Summary(last)]
    /\ nOps' = nOps + 1
    /\ nGames' = nGames + 1
    /\ UNCHANGED best0

\* Math.random() is called only when randomSpawn runs
Draws(moved) == IF moved THEN Rand ELSE {0}

\* move(dir), the whole setState updater. The keydown and swipe listeners
\* that call it are installed after the mount effect has called newGame, so
\* the board is never empty when it runs.
Move(dir) ==
    /\ nOps < MaxOps
    /\ tiles # << >>
    /\ \E res \in {Resolve(tiles, dir)} :
       \E filtered \in {Filtered(res)} :
       \E r1 \in Draws(res.moved), r2 \in Draws(res.moved) :
       \E next \in {finishMove(GameState, res, filtered, r1, r2)} :
          /\ tiles' = next.tiles
          /\ score' = next.score
          /\ best' = next.best
          /\ won' = next.won
          /\ over' = next.over
          /\ idSeq' = next.idSeq
          /\ maxScore' = Max(maxScore, next.score)
          /\ last' = [op |-> "move", dir |-> dir, moved |-> res.moved,
                      scoreGain |-> res.scoreGain, prev |-> GameState,
                      resolved |-> filtered, before |-> Summary(last)]
    /\ nOps' = nOps + 1
    /\ UNCHANGED <<nGames, best0>>

MoveUp == Move("up")
MoveDown == Move("down")
MoveLeft == Move("left")
MoveRight == Move("right")

\* the operations of the engine on a committed state, its surroundings at rest
Next ==
    /\ NewGame \/ MoveUp \/ MoveDown \/ MoveLeft \/ MoveRight
    /\ UNCHANGED pvars

Spec == Init /\ [][Next]_vars

----------------------------------------------------------------------------
\* The engine in its surroundings: mount, effects, renders, user events

Env == [queue |-> queue, store |-> store, crashed |-> crashed]

\* the states move's updater can return on the state s; s.idSeq is the
\* module's counter when the updater runs
moveOutcomes(s, dir) ==
    UNION {{finishMove(s, res[1], res[2], r1, r2) :
               r1 \in Draws(res[1].moved), r2 \in Draws(res[1].moved)} :
           res \in {<<r, Filtered(r)>> : r \in {Resolve(s.tiles, dir)}}}

\* the states one queued updater can return on the state s
UpdateOutcomes(s, u) ==
    CASE u.kind = "best" -> {[s EXCEPT !.best = u.value]}
      [] u.kind = "newGame" -> {NewGameState(s, u.tiles)}
      [] u.kind = "move" -> moveOutcomes(s, u.dir)

\* the queue applied in call order from its i-th updater on
RECURSIVE QueueOutcomes(_, _, _)
QueueOutcomes(ss, q, i) ==
    IF i > Len(q) THEN ss
    ELSE QueueOutcomes(UNION {UpdateOutcomes(s, q[i]) : s \in ss}, q, i + 1)

\* the first render has happened, its effects are pending
InitPersist ==
    /\ tiles = MountState.tiles
    /\ score = MountState.score
    /\ best = MountState.best
    /\ won = MountState.won
    /\ over = MountState.over
    /\ idSeq = MountState.idSeq
    /\ last = [op |-> "none", dir |-> "none", moved |-> FALSE, scoreGain |-> 0,
               prev |-> MountState, resolved |-> << >>, before |-> NoOp]
    /\ nOps = 0
    /\ nGames = 0
    /\ best0 = 0
    /\ maxScore = 0
    /\ store \in StoreInit
    /\ storage \in StorageModes
    /\ queue = << >>
    /\ effects = MountEffects(MountState)
    /\ crashed = FALSE
    /\ plast = NoStep(store)

\* useEffect(() => { ...getItem... }, [])
RunLoadBest ==
    /\ ~crashed
    /\ effects # << >>
    /\ Head(effects).kind = "load"
    /\ \E throws \in Throws :
       \E env \in {loadBest(Env, throws)} :
          /\ queue' = env.queue
          /\ store' = env.store
          /\ crashed' = env.crashed
          /\ plast' = [plast EXCEPT !.step = "load", !.failed = throws,
                                    !.prev = GameState,
                                    !.readFailed = @ \/ throws]
    /\ effects' = Tail(effects)
    /\ UNCHANGED <<gvars, storage>>

\* useEffect(() => { ...setItem... }, [state.best])
RunWriteBest ==
    /\ ~crashed
    /\ effects # << >>
    /\ Head(effects).kind = "write"
    /\ \E throws \in Throws :
       \E env \in {writeBest(Env, Head(effects).best, throws)} :
          /\ queue' = env.queue
          /\ store' = env.store
          /\ crashed' = env.crashed
          /\ plast' = [plast EXCEPT !.step = "write", !.failed = throws,
                                    !.prev = GameState,
                                    !.writeFailed = @ \/ throws]
    /\ effects' = Tail(effects)
    /\ UNCHANGED <<gvars, storage>>

\* newGame() up to its setState: idSeq = 1, two spawns, the updater queued
CallNewGame ==
    \E r1 \in Rand, r2 \in Rand, r3 \in Rand, r4 \in Rand :
    \E g \in {newGameUpdate(GameState, r1, r2, r3, r4)} :
       /\ idSeq' = g.idSeq
       /\ queue' = Append(queue, TilesUpdate(g.tiles))

\* useEffect(() => { if (state.tiles.length === 0) newGame(); }, [])
RunInit ==
    /\ ~crashed
    /\ effects # << >>
    /\ Head(effects).kind = "init"
    /\ IF Head(effects).length = 0
       THEN CallNewGame
       ELSE UNCHANGED <<idSeq, queue>>
    /\ effects' = Tail(effects)
    /\ plast' = [plast EXCEPT !.step = "init", !.failed = FALSE, !.prev = GameState]
    /\ UNCHANGED <<tiles, score, best, won, over, last, nOps, nGames, best0, maxScore,
                   store, storage, crashed>>

\* React renders: the queued updaters run in call order on the committed
\* state, the result is committed and the effects whose deps changed are
\* scheduled
Render ==
    /\ ~crashed
    /\ effects = << >>
    /\ queue # << >>
    /\ \E next \in QueueOutcomes({GameState}, queue, 1) :
       /\ tiles' = next.tiles
       /\ score' = next.score
       /\ best' = next.best
       /\ won' = next.won
       /\ over' = next.over
       /\ idSeq' = next.idSeq
       /\ maxScore' = Max(maxScore, next.score)
       /\ effects' = EffectsAfter(best, next.best)
       /\ last' = [op |-> "render", dir |-> "none", moved |-> FALSE,
                   scoreGain |-> 0, prev |-> GameState,
                   resolved |-> next.tiles, before |-> Summary(last)]
       /\ plast' = [plast EXCEPT !.step = "render", !.failed = FALSE,
                                 !.prev = GameState, !.mounted = TRUE,
                                 !.queue = queue, !.renders = @ + 1]
    /\ queue' = << >>
    /\ UNCHANGED <<nOps, nGames, best0, store, storage, crashed>>

\* a key or a swipe: move(dir), rendered before the next event is handled
KeyDown ==
    /\ Quiescent
    /\ plast.mounted
    /\ MoveUp \/ MoveDown \/ MoveLeft \/ MoveRight
    /\ effects' = EffectsAfter(best, best')
    /\ plast' = [plast EXCEPT !.step = "move", !.failed = FALSE, !.prev = GameState]
    /\ UNCHANGED <<store, storage, queue, crashed>>

\* the New Game button: newGame(), rendered before the next event is handled
ClickNewGame ==
    /\ Quiescent
    /\ plast.mounted
    /\ NewGame
    /\ effects' = EffectsAfter(best, best')
    /\ plast' = [plast EXCEPT !.step = "newGame", !.failed = FALSE, !.prev = GameState]
    /\ UNCHANGED <<store, storage, queue, crashed>>

NextPersist ==
    RunLoadBest \/ RunWriteBest \/ RunInit \/ Render \/ KeyDown \/ ClickNewGame

SpecPersist == InitPersist /\ [][NextPersist]_vars

\* React runs the effects it has scheduled and renders the updates it has queued
FairPersist ==
    /\ SpecPersist
    /\ WF_vars(RunLoadBest \/ RunWriteBest \/ RunInit)
    /\ WF_vars(Render)

----------------------------------------------------------------------------
\* The engine called through its context: move and newGame only queue their
\* updaters, React renders them later in one pass

\* a game in progress, all its effects run
QueueStarts == {SeedNearLoss}

InitQueue ==
    \E s \in QueueStarts :
        /\ tiles = s.tiles
        /\ score = s.score
        /\ best = s.best
        /\ won = s.won
        /\ over = s.over
        /\ idSeq = s.idSeq
        /\ last = [op |-> "none", dir |-> "none", moved |-> FALSE, scoreGain |-> 0,
                   prev |-> s, resolved |-> s.tiles, before |-> NoOp]
        /\ nOps = 0
        /\ nGames = 0
        /\ best0 = s.best
        /\ maxScore = s.score
        /\ Settled(s)

\* the state a batch of calls starts from
BatchBase == IF queue = << >> THEN GameState ELSE plast.base

\* move(dir): setState(updater), nothing else
CallMove(dir) ==
    /\ ~crashed
    /\ effects = << >>
    /\ nOps < MaxCalls
    /\ plast.renders < MaxBatches
    /\ queue' = Append(queue, MoveUpdate(dir))
    /\ nOps' = nOps + 1
    /\ plast' = [plast EXCEPT !.step = "call", !.failed = FALSE, !.base = BatchBase]
    /\ UNCHANGED <<tiles, score, best, won, over, idSeq, last, nGames, best0, maxScore,
                   store, storage, effects, crashed>>

CallUp == CallMove("up")
CallDown == CallMove("down")
CallLeft == CallMove("left")
CallRight == CallMove("right")

\* newGame(): the id counter is reset and the two tiles are drawn now, the
\* updater that installs them is queued
CallNew ==
    /\ ~crashed
    /\ effects = << >>
    /\ nOps < MaxCalls
    /\ plast.renders < MaxBatches
    /\ nGames < MaxGames
    /\ CallNewGame
    /\ nOps' = nOps + 1
    /\ nGames' = nGames + 1
    /\ plast' = [plast EXCEPT !.step = "call", !.failed = FALSE, !.base = BatchBase]
    /\ UNCHANGED <<tiles, score, best, won, over, last, best0, maxScore,
                   store, storage, effects, crashed>>

NextQueue ==
    CallUp \/ CallDown \/ CallLeft \/ CallRight \/ CallNew \/ Render \/ RunWriteBest

SpecQueue == InitQueue /\ [][NextQueue]_vars

----------------------------------------------------------------------------
\* The classic 2048 line rule, stated on values alone

\* the j-th cell (0 = leading end) of line k for a direction of travel
LeadCell(dir, k, j) ==
    CASE dir = "left" -> <<k, j>>
      [] dir = "right" -> <<k, SIZE - 1 - j>>
      [] dir = "up" -> <<j, k>>
      [] dir = "down" -> <<SIZE - 1 - j, k>>

TilesAt(ts, cell) == {i \in 1 .. Len(ts) : Pos(ts[i]) = cell}

\* the value shown in a cell, 0 for an empty cell
ValueAt(ts, cell) ==
    IF TilesAt(ts, cell) = {} THEN 0 ELSE ts[CHOOSE i \in TilesAt(ts, cell) : TRUE].value

LineVals(ts, dir, k) == [j \in 1 .. SIZE |-> ValueAt(ts, LeadCell(dir, k, j - 1))]

Pack(vals) == LET NonZero(v) == v # 0 IN SelectSeq(vals, NonZero)

RECURSIVE MergePairs(_)
MergePairs(p) ==
    IF Len(p) = 0 THEN << >>
    ELSE IF Len(p) >= 2 /\ p[1] = p[2]
         THEN <<2 * p[1]>> \o MergePairs(SubSeq(p, 3, Len(p)))
         ELSE <<p[1]>> \o MergePairs(Tail(p))

RECURSIVE PairGain(_)
PairGain(p) ==
    IF Len(p) = 0 THEN 0
    ELSE IF Len(p) >= 2 /\ p[1] = p[2]
         THEN 2 * p[1] + PairGain(SubSeq(p, 3, Len(p)))
         ELSE PairGain(Tail(p))

RefLine(vals) ==
    LET m == MergePairs(Pack(vals))
    IN [j \in 1 .. SIZE |-> IF j <= Len(m) THEN m[j] ELSE 0]

RefGain(vals) == PairGain(Pack(vals))

OneTilePerCell(ts) == \A cell \in Cells : Cardinality(TilesAt(ts, cell)) <= 1

AfterMove == last.op = "move"
AfterNewGame == last.op = "newGame"

\* the tile of an array with a given id, and the ids of an array
Ids(ts) == {ts[i].id : i \in 1 .. Len(ts)}
ById(ts, id) == ts[CHOOSE i \in 1 .. Len(ts) : ts[i].id = id]

\* the fields of the spec's Tile: id, row, col, value
Core(ts) == AsSeq([i \in 1 .. Len(ts) |->
               [id |-> ts[i].id, row |-> ts[i].row, col |-> ts[i].col, value |-> ts[i].value]])

----------------------------------------------------------------------------
\* C1: after every move(d), each of the 4 lines of the resolved board is the
\* classic 2048 resolution of the same line of the board before: tiles
\* packed toward the leading end in encounter order, equal neighbours merged
\* pairwise from the leading end, never skipping and never chaining; a line
\* [v,v,v,v] becomes [2v,2v,_,_] and a line [v,v,v,_] becomes [2v,v,_,_].
C1_ClassicLines ==
    AfterMove =>
        /\ OneTilePerCell(last.resolved)
        /\ \A k \in Idx :
           \A before \in {LineVals(last.prev.tiles, last.dir, k)} :
           \A after \in {LineVals(last.resolved, last.dir, k)} :
              /\ after = RefLine(before)
              /\ (before[1] # 0 /\ \A j \in 1 .. SIZE : before[j] = before[1])
                   => after = <<2 * before[1], 2 * before[1], 0, 0>>
              /\ (before[1] # 0 /\ before[4] = 0
                     /\ \A j \in 1 .. 3 : before[j] = before[1])
                   => after = <<2 * before[1], before[1], 0, 0>>

\* a move resolved a line [v,v,v,v] and a line [v,v,v,_]
C1_Witness ==
    /\ AfterMove
    /\ \E k \in Idx : LET b == LineVals(last.prev.tiles, last.dir, k)
                       IN b[1] # 0 /\ \A j \in 1 .. SIZE : b[j] = b[1]
    /\ \E k \in Idx : LET b == LineVals(last.prev.tiles, last.dir, k)
                       IN b[1] # 0 /\ b[4] = 0 /\ \A j \in 1 .. 3 : b[j] = b[1]

\* C2: within one move no tile takes part in more than one merge: every
\* surviving tile keeps its value or has exactly twice its value and the
\* merged flag, every doubled tile has consumed exactly one tile, the lines
\* [2,2,4,4] and [2,2,4,_] give [4,8,_,_] and [4,4,_,_]; the score gained is
\* the sum of the doubled values, and score = score before + that sum.
RECURSIVE SumValues(_, _)
SumValues(ts, i) == IF i > Len(ts) THEN 0 ELSE ts[i].value + SumValues(ts, i + 1)

RECURSIVE SumGains(_, _)
SumGains(lines, k) == IF k > Len(lines) THEN 0 ELSE RefGain(lines[k]) + SumGains(lines, k + 1)

\* the sum of the values of the tiles that have twice the value they had
RECURSIVE SumDoubled(_, _, _)
SumDoubled(ts, was, i) ==
    IF i > Len(ts) THEN 0
    ELSE (IF ts[i].value = 2 * was[i] THEN ts[i].value ELSE 0) + SumDoubled(ts, was, i + 1)

\* the value a tile of the resolved board had before the move (0: no such tile)
ValueBefore(old, t) ==
    LET same == {i \in 1 .. Len(old) : old[i].id = t.id}
    IN IF same = {} THEN 0 ELSE old[CHOOSE i \in same : TRUE].value

C2_SingleMerge ==
    AfterMove =>
        \A old \in {last.prev.tiles} :
        \A new \in {last.resolved} :
        \A was \in {[i \in 1 .. Len(new) |-> ValueBefore(old, new[i])]} :
        \A doubled \in {{i \in 1 .. Len(new) : new[i].value = 2 * was[i]}} :
        \A lines \in {[k \in 1 .. SIZE |-> LineVals(old, last.dir, k - 1)]} :
           /\ Ids(new) \subseteq Ids(old)
           /\ \A i \in 1 .. Len(new) :
                 /\ new[i].value \in {was[i], 2 * was[i]}
                 /\ new[i].merged <=> (i \in doubled)
           /\ Len(old) - Len(new) = Cardinality(doubled)
           /\ SumValues(new, 1) = SumValues(old, 1)
           /\ last.scoreGain = SumDoubled(new, was, 1)
           /\ last.scoreGain = SumGains(lines, 1)
           /\ RefGain(<<2, 2, 4, 4>>) = 12 /\ RefGain(<<2, 2, 2, 2>>) = 8
           /\ score = last.prev.score + last.scoreGain
           /\ score >= last.prev.score
           /\ \A k \in Idx :
                 /\ lines[k + 1] = <<2, 2, 4, 4>>
                      => LineVals(new, last.dir, k) = <<4, 8, 0, 0>>
                 /\ lines[k + 1] = <<2, 2, 4, 0>>
                      => LineVals(new, last.dir, k) = <<4, 4, 0, 0>>

\* a move resolved a line [2,2,4,4] and a line [2,2,4,_] and gained score
C2_Witness ==
    /\ AfterMove
    /\ \E k \in Idx : LineVals(last.prev.tiles, last.dir, k) = <<2, 2, 4, 4>>
    /\ \E k \in Idx : LineVals(last.prev.tiles, last.dir, k) = <<2, 2, 4, 0>>
    /\ last.scoreGain >= 12 + 4
    /\ score = last.prev.score + last.scoreGain

\* C3: moved is false exactly when no tile changes cell during the resolution
\* (a consumed tile counts as changing cell, so every merge sets moved); and
\* after a move with moved = false no tile is spawned, the tiles
\* (id,row,col,value) are unchanged, and score and best are unchanged.
TileChangedCell ==
    \E i \in 1 .. Len(last.prev.tiles) :
        ~ \E j \in 1 .. Len(last.resolved) :
              /\ last.resolved[j].id = last.prev.tiles[i].id
              /\ Pos(last.resolved[j]) = Pos(last.prev.tiles[i])

C3_MovedFlag ==
    AfterMove =>
        /\ last.moved <=> TileChangedCell
        /\ last.moved <=> \E cell \in Cells :
                              ValueAt(last.resolved, cell) # ValueAt(last.prev.tiles, cell)
        /\ last.scoreGain > 0 => last.moved
        /\ Ids(last.resolved) # Ids(last.prev.tiles) => last.moved
        /\ ~last.moved =>
              /\ Core(tiles) = Core(last.prev.tiles)
              /\ \A i \in 1 .. Len(tiles) : ~tiles[i].spawned
              /\ idSeq = last.prev.idSeq
              /\ score = last.prev.score
              /\ best = last.prev.best

\* an ineffective move on a board that still has an empty cell
C3_Witness ==
    /\ AfterMove
    /\ ~last.moved
    /\ Len(emptyCells(tiles)) > 0
    /\ Len(tiles) > 2

\* C4: after a move with moved = true exactly one tile is added to the
\* resolved board: the resolved board has an empty cell, the tile count is
\* the resolver's plus 1, the new tile has value 2 or 4 and lies in a cell
\* that was empty in the resolved board, and every empty cell with either
\* value is the outcome of some pair of draws of Math.random().
C4_SpawnOne ==
    (AfterMove /\ last.moved) =>
        \A empties \in {emptyCells(last.resolved)} :
        \A new \in {tiles[Len(tiles)]} :
           /\ Len(empties) >= 1
           /\ Len(tiles) = Len(last.resolved) + 1
           /\ SubSeq(tiles, 1, Len(tiles) - 1) = last.resolved
           /\ new.value \in {2, 4}
           /\ TilesAt(last.resolved, Pos(new)) = {}
           /\ new.spawned
           /\ \A i \in 1 .. Len(empties) :
              \E r1 \in {(((i - 1) * RandScale) + Len(empties) - 1) \div Len(empties)} :
                 /\ r1 \in AnyRand
                 /\ \A r2 \in {0, RandScale - 1} :
                    \E t \in {randomSpawn(last.resolved, idSeq, r1, r2).tiles[Len(tiles)]} :
                       /\ Pos(t) = empties[i]
                       /\ t.value = (IF r2 = 0 THEN 4 ELSE 2)

\* a full board moved by a merge and received its new tile
C4_Witness ==
    /\ AfterMove
    /\ last.moved
    /\ Len(last.prev.tiles) = SIZE * SIZE
    /\ Len(tiles) = Len(last.resolved) + 1
    /\ tiles[Len(tiles)].value = 4

\* C5: in every state produced by move(d), over is true iff won is false and
\* the board after spawning has no empty cell and no two orthogonally
\* adjacent tiles, in a row or in a column, have the same value.
Full(ts) == \A cell \in Cells : TilesAt(ts, cell) # {}

Dist(a, b) == IF a >= b THEN a - b ELSE b - a

AdjacentEqual(ts) ==
    \E i \in 1 .. Len(ts), j \in 1 .. Len(ts) :
        /\ Dist(ts[i].row, ts[j].row) + Dist(ts[i].col, ts[j].col) = 1
        /\ ts[i].value = ts[j].value

C5_OverIff ==
    AfterMove => (over <=> (~won /\ Full(tiles) /\ ~AdjacentEqual(tiles)))

\* a move ended the game
C5_Witness ==
    /\ AfterMove
    /\ last.moved
    /\ over
    /\ ~last.prev.over

\* C6: won becomes true in the very move in which a tile first has value
\* >= 2048, stays true after every later move of the game, also when the
\* tile that reached 2048 is consumed by a merge, and goes back to false
\* only through newGame().
HasWinTile(ts) == \E i \in 1 .. Len(ts) : ts[i].value >= 2048

C6_WonSticky ==
    /\ HasWinTile(tiles) => won
    /\ AfterMove => (won <=> (last.prev.won \/ HasWinTile(tiles)))
    /\ (AfterMove /\ last.prev.won) => won
    /\ AfterNewGame => ~won
    /\ (last.prev.won /\ ~won) => AfterNewGame

\* a won game in which a move consumed a 2048 tile
C6_Witness ==
    /\ AfterMove
    /\ last.prev.won
    /\ won
    /\ \E i \in 1 .. Len(last.prev.tiles) :
          /\ last.prev.tiles[i].value = 2048
          /\ last.prev.tiles[i].id \notin Ids(tiles)

\* C7: best is the maximum of its value at the start and every score
\* observed since; best never decreases on any step, newGame included, and
\* best >= score in every reachable state.
C7_BestHighWater ==
    /\ best = Max(best0, maxScore)
    /\ best >= last.prev.best
    /\ best >= score

\* a move that raised best above an earlier high score
C7_Witness ==
    /\ AfterMove
    /\ best > last.prev.best
    /\ best = score
    /\ best0 > 0

\* C8: newGame(), called in any state, yields score = 0, won = false,
\* over = false, best unchanged, and a board of exactly two tiles in two
\* distinct cells, each of value 2 or 4, both newly spawned.
C8_NewGameReset ==
    AfterNewGame =>
        /\ score = 0
        /\ ~won
        /\ ~over
        /\ best = last.prev.best
        /\ Len(tiles) = 2
        /\ Pos(tiles[1]) # Pos(tiles[2])
        /\ \A i \in 1 .. Len(tiles) :
              /\ tiles[i].value \in {2, 4}
              /\ tiles[i].row \in Idx /\ tiles[i].col \in Idx
              /\ tiles[i].spawned /\ ~tiles[i].merged

\* newGame called on a lost game with a high score
C8_Witness ==
    /\ AfterNewGame
    /\ last.prev.over
    /\ Len(last.prev.tiles) = SIZE * SIZE
    /\ best > 0

\* C9: a second move(d) after a move(d) that yielded moved = false produces
\* the identical GameState (tiles with id, row, col, value and animation
\* flags, score, best, won, over) and does not advance the id counter.
C9_IdempotentNoOp ==
    (/\ AfterMove
     /\ ~last.moved
     /\ last.before = [op |-> "move", dir |-> last.dir, moved |-> FALSE])
        => /\ tiles = last.prev.tiles
           /\ score = last.prev.score
           /\ best = last.prev.best
           /\ won = last.prev.won
           /\ over = last.prev.over
           /\ idSeq = last.prev.idSeq

\* two ineffective moves in the same direction in a row
C9_Witness ==
    /\ AfterMove
    /\ ~last.moved
    /\ last.before = [op |-> "move", dir |-> last.dir, moved |-> FALSE]
    /\ Len(emptyCells(tiles)) > 0

\* C10: once over is true every move(d) is a no-op: the board
\* (id,row,col,value of every tile), score, best and won are unchanged and
\* over stays true; over becomes false again only through newGame().
C10_OverSticky ==
    /\ (AfterMove /\ last.prev.over) =>
          /\ ~last.moved
          /\ Core(tiles) = Core(last.prev.tiles)
          /\ score = last.prev.score
          /\ best = last.prev.best
          /\ won = last.prev.won
          /\ over
    /\ (last.prev.over /\ ~over) => AfterNewGame

\* a move attempted on a lost game
C10_Witness ==
    /\ AfterMove
    /\ last.prev.over
    /\ over

\* C14: an ineffective move cannot newly end the game: from a state with
\* over = false a move with moved = false yields over = false; over is in
\* every state the loss condition of the board it stands beside.
C14_NoOpKeepsPlaying ==
    /\ (AfterMove /\ ~last.moved /\ ~last.prev.over) => ~over
    /\ over <=> (~won /\ Full(tiles) /\ ~AdjacentEqual(tiles))

\* an ineffective move on a full board of a game that goes on
C14_Witness ==
    /\ AfterMove
    /\ ~last.moved
    /\ ~last.prev.over
    /\ ~won
    /\ Full(tiles)
    /\ ~over

\* C15: in every state every tile has row and col in 0..3, no two tiles
\* share a cell, the board holds at most 16 tiles, and every value is a
\* power of 2 that is >= 2.
RECURSIVE IsPowerOfTwo(_)
IsPowerOfTwo(v) ==
    IF v = 2 THEN TRUE
    ELSE IF v < 2 \/ v % 2 # 0 THEN FALSE
    ELSE IsPowerOfTwo(v \div 2)

C15_BoardInvariants ==
    /\ Len(tiles) <= SIZE * SIZE
    /\ \A i \in 1 .. Len(tiles) :
          /\ tiles[i].row \in Idx
          /\ tiles[i].col \in Idx
          /\ IsPowerOfTwo(tiles[i].value)
    /\ \A i \in 1 .. Len(tiles), j \in 1 .. Len(tiles) :
          i # j => Pos(tiles[i]) # Pos(tiles[j])

\* a merge on a full board, which the spawn has filled again
C15_Witness ==
    /\ AfterMove
    /\ last.scoreGain > 0
    /\ Len(last.prev.tiles) = SIZE * SIZE
    /\ Len(tiles) = SIZE * SIZE

\* C16: all tiles of the board have pairwise distinct ids; across a move
\* every tile that is not consumed keeps its id; in a merge the surviving
\* tile is the earlier-placed one, next before the consumed tile on its line
\* toward the leading end, and keeps its id while the consumed tile's id
\* leaves the board; a spawned tile gets an id no tile of the board has.
DistinctIds(ts) ==
    \A i \in 1 .. Len(ts), j \in 1 .. Len(ts) : i # j => ts[i].id # ts[j].id

\* the line of a tile for a direction, and its distance from the leading end
LineOf(dir, t) == IF dir \in {"left", "right"} THEN t.row ELSE t.col
LeadIndex(dir, t) ==
    CASE dir = "left" -> t.col
      [] dir = "right" -> SIZE - 1 - t.col
      [] dir = "up" -> t.row
      [] dir = "down" -> SIZE - 1 - t.row

\* s is the tile met just before c on c's line, seen from the leading end
NextBefore(old, dir, s, c) ==
    /\ LineOf(dir, s) = LineOf(dir, c)
    /\ LeadIndex(dir, s) < LeadIndex(dir, c)
    /\ ~ \E k \in 1 .. Len(old) :
            /\ LineOf(dir, old[k]) = LineOf(dir, c)
            /\ LeadIndex(dir, s) < LeadIndex(dir, old[k])
            /\ LeadIndex(dir, old[k]) < LeadIndex(dir, c)

C16_TileIdentity ==
    /\ DistinctIds(tiles)
    /\ \A i \in 1 .. Len(tiles) : tiles[i].id < idSeq
    /\ AfterMove =>
          \A old \in {last.prev.tiles} :
          \A new \in {last.resolved} :
             /\ Ids(new) \subseteq Ids(old)
             /\ \A j \in 1 .. Len(new) :
                \E i \in 1 .. Len(old) :
                   /\ old[i].id = new[j].id
                   /\ LineOf(last.dir, old[i]) = LineOf(last.dir, new[j])
                   /\ LeadIndex(last.dir, new[j]) <= LeadIndex(last.dir, old[i])
             /\ \A i \in 1 .. Len(old) :
                   old[i].id \notin Ids(new) =>
                      \E k \in 1 .. Len(old) :
                         /\ old[k].id \in Ids(new)
                         /\ old[k].value = old[i].value
                         /\ NextBefore(old, last.dir, old[k], old[i])
                         /\ ById(new, old[k].id).value = 2 * old[i].value
                         /\ ById(new, old[k].id).merged
             /\ last.moved =>
                   /\ tiles[Len(tiles)].id \notin Ids(new)
                   /\ tiles[Len(tiles)].id = last.prev.idSeq
                   /\ idSeq = last.prev.idSeq + 1

\* a move with two merges on one line, followed by its spawn
C16_Witness ==
    /\ AfterMove
    /\ last.moved
    /\ \E k \in Idx :
          /\ \A j \in 1 .. SIZE : LineVals(last.prev.tiles, last.dir, k)[j] # 0
          /\ LineVals(last.resolved, last.dir, k)[3] = 0
    /\ Len(tiles) = Len(last.resolved) + 1

\* C17: won and over are never both true; a move that reaches a tile >= 2048
\* and leaves a full board without equal neighbours gives won with
\* over = false, over stays false in such a game on every later move, and a
\* move of a won game is resolved like any other: classic lines, score, spawn.
C17_WonNotOver ==
    /\ ~(won /\ over)
    /\ (won /\ Full(tiles) /\ ~AdjacentEqual(tiles)) => ~over
    /\ (AfterMove /\ last.prev.won) =>
          /\ won
          /\ ~over
          /\ \A k \in Idx :
                LineVals(last.resolved, last.dir, k)
                   = RefLine(LineVals(last.prev.tiles, last.dir, k))
          /\ score = last.prev.score + last.scoreGain
          /\ Len(tiles) = Len(last.resolved) + (IF last.moved THEN 1 ELSE 0)

\* a move attempted on the full board, without equal neighbours, of a won game
C17_Witness ==
    /\ AfterMove
    /\ last.prev.won
    /\ Full(last.prev.tiles)
    /\ ~AdjacentEqual(last.prev.tiles)
    /\ ~last.moved
    /\ won
    /\ ~over


\* the high score the store holds, as the load effect would read it
StoredBest == IF Truthy(store) THEN OrZero(Number(store.text)) ELSE 0

\* no access of the store has thrown so far
NoFailure == ~plast.readFailed /\ ~plast.writeFailed

\* the high score found in the store at mount
SavedBest == OrZero(Number(plast.store0.text))

\* C11: the persisted high score never regresses: from mount onward the
\* value stored under the key is never replaced by a smaller one; the score
\* recovered at startup is not overwritten by the initial best of 0.
C11_StoreNeverRegresses == [][StoredBest' >= StoredBest]_vars

C13_FailuresNonFatal ==
    /\ ~crashed
    /\ (plast.readFailed /\ plast.mounted /\ nOps = 0) =>
          /\ best = 0
          /\ Len(tiles) = 2
          /\ score = 0
          /\ ~won
          /\ ~over
    /\ plast.step \in {"load", "write"} => GameState = plast.prev
    /\ (plast.writeFailed /\ plast.step = "move") =>
          /\ \A k \in Idx :
                LineVals(last.resolved, last.dir, k)
                   = RefLine(LineVals(last.prev.tiles, last.dir, k))
          /\ score = last.prev.score + last.scoreGain
          /\ best = Max(last.prev.best, score)
          /\ Len(tiles) = Len(last.resolved) + (IF last.moved THEN 1 ELSE 0)

\* the startup read and a write have failed, and a move has then merged tiles
C13_Witness ==
    /\ plast.readFailed
    /\ plast.writeFailed
    /\ plast.step = "move"
    /\ last.moved
    /\ last.scoreGain > 0
    /\ best = score


\* a GameState up to tile ids
Anon(s) ==
    [tiles |-> {[row |-> s.tiles[i].row, col |-> s.tiles[i].col,
                 value |-> s.tiles[i].value, merged |-> s.tiles[i].merged,
                 spawned |-> s.tiles[i].spawned] : i \in 1 .. Len(s.tiles)},
     score |-> s.score, best |-> s.best, won |-> s.won, over |-> s.over]

\* every draw Math.random() can give a spawn among n empty cells: one per
\* cell, and one per value
CellDraws(n) == {DrawCell(i, n) : i \in 0 .. Max(n - 1, 0)}
ValueDraws == {DrawValue(0), DrawValue(1)}

\* move(dir) executed to completion on the state s, with the given draws or
\* with every draw there is
moveAlone(s, dir, any) ==
    UNION {{finishMove(s, res[1], res[2], r1, r2) :
               r1 \in IF any THEN CellDraws(Len(emptyCells(res[2]))) ELSE Draws(res[1].moved),
               r2 \in IF any THEN ValueDraws ELSE Draws(res[1].moved)} :
           res \in {<<r, Filtered(r)>> : r \in {Resolve(s.tiles, dir)}}}

\* newGame() executed to completion on the state s: with the tiles the call
\* drew, or with every pair of tiles it can draw
newGameAlone(s, u, any) ==
    IF any
    THEN {newGameUpdate(s, r1, r2, r3, r4) :
             r1 \in CellDraws(SIZE * SIZE), r2 \in ValueDraws,
             r3 \in CellDraws((SIZE * SIZE) - 1), r4 \in ValueDraws}
    ELSE {[NewGameState(s, u.tiles) EXCEPT !.idSeq = Len(u.tiles) + 1]}

CallAlone(s, u, any) ==
    IF u.kind = "move" THEN moveAlone(s, u.dir, any) ELSE newGameAlone(s, u, any)

\* the calls of a queue executed one at a time, each to completion
RECURSIVE OneAtATime(_, _, _, _)
OneAtATime(ss, q, i, any) ==
    IF i > Len(q) THEN ss
    ELSE OneAtATime(UNION {CallAlone(s, q[i], any) : s \in ss}, q, i + 1, any)

\* the committed state is one the calls of the batch, run one at a time from
\* the state the batch started in, can produce up to tile ids. The runs that
\* repeat the batch's own draws are tried first; they are among all runs.
Serialized ==
    \/ Anon(GameState) \in {Anon(x) : x \in OneAtATime({plast.base}, plast.queue, 1, FALSE)}
    \/ Anon(GameState) \in {Anon(x) : x \in OneAtATime({plast.base}, plast.queue, 1, TRUE)}

\* C18: when a batch of move and newGame calls, queued in call order, has
\* been rendered, the committed GameState is one the same calls executed
\* one at a time in the same order could produce, up to tile ids, and the
\* committed board has no two tiles with the same id or in the same cell.
C18_QueuedCallsSerialize ==
    (plast.step = "render") =>
        /\ Serialized
        /\ DistinctIds(tiles)
        /\ \A i \in 1 .. Len(tiles), j \in 1 .. Len(tiles) :
              i # j => Pos(tiles[i]) # Pos(tiles[j])


====
